---------------------------- MODULE Spec2Model ----------------------------
(***************************************************************************)
(* A model of git_rm_user.py: the keyring-backed token store, the          *)
(* two-level parallel scan for a target user (find_user_in_orgs), and the  *)
(* search command with its deletion loop.                                  *)
(*                                                                         *)
(* Python strings are sequences of atoms: an atom is a run of characters   *)
(* that contains no "," (the separator of the stored token list) and is    *)
(* never split by the program.  Concatenation is \o, "x in s" is a         *)
(* contiguous-subsequence test.                                            *)
(***************************************************************************)
EXTENDS Naturals, Sequences, FiniteSets, Bags, TLC

VARIABLES
    keyring,     \* the OS secret store, service "git-rm-tool": key -> password
    lastCmd,     \* the last completed token command of the CLI
    args,        \* the options of the running search command
    pc,          \* position of the main thread
    exitStatus,  \* the process exit status: {} while running, {n} after exit n
    world,       \* what the GitHub API answers (fixed during one run)
    orgTask,     \* per organization: its future in the 3-worker pool
    repoTask,    \* per organization, per repository: its future in the 5-worker pool
    results,     \* find_user_in_orgs' results list / search's locations
    calls,       \* the kinds of GitHub client operations invoked so far
    idx,         \* deletion loop: index of the next location
    revoked,     \* deletion loop: one record per remove_user_from_org call
    prompts      \* deletion loop: indexes of the locations confirmed with click.confirm

vars == <<keyring, lastCmd, args, pc, exitStatus, world, orgTask, repoTask,
          results, calls, idx, revoked, prompts>>

(***************************************************************************)
(* Python values                                                           *)
(***************************************************************************)
\* Python's None, as a value no string equals.
None == <<"\\None">>

\* Python truthiness of an Optional[str].
Truthy(s) == s # None /\ s # <<>>

\* sub in s, for strings.
Contains(s, sub) ==
    \E i \in 1..(Len(s) + 1) :
        /\ i + Len(sub) - 1 <= Len(s)
        /\ SubSeq(s, i, i + Len(sub) - 1) = sub

\* s.split(","): the fields between the separators, empty fields kept.
RECURSIVE Split(_)
Split(s) ==
    IF \E i \in 1..Len(s) : s[i] = ","
    THEN LET i == CHOOSE k \in 1..Len(s) :
                      s[k] = "," /\ \A m \in 1..(k - 1) : s[m] # ","
         IN  <<SubSeq(s, 1, i - 1)>> \o Split(SubSeq(s, i + 1, Len(s)))
    ELSE <<s>>

\* ",".join(list)
RECURSIVE Join(_)
Join(list) ==
    IF list = <<>> THEN <<>>
    ELSE IF Len(list) = 1 THEN list[1]
    ELSE list[1] \o <<",">> \o Join(Tail(list))

\* x in list
InList(x, list) == \E i \in 1..Len(list) : list[i] = x

(***************************************************************************)
(* The token store (lines 45-83)                                           *)
(***************************************************************************)
DEFAULT_TOKEN_KEY == <<"git-rm-tool-default">>
TOKEN_LIST_KEY == <<"token_list">>

\* keyring.get_password("git-rm-tool", key)
get_password(kr, key) == IF key \in DOMAIN kr THEN kr[key] ELSE None

\* keyring.set_password("git-rm-tool", key, value)
set_password(kr, key, value) ==
    [k \in (DOMAIN kr) \cup {key} |-> IF k = key THEN value ELSE kr[k]]

get_tokens(kr) ==
    LET stored == get_password(kr, TOKEN_LIST_KEY)
        tokens_str == IF Truthy(stored) THEN stored ELSE <<>>
    IN  IF tokens_str # <<>> THEN Split(tokens_str) ELSE <<>>

add_token_to_list(kr, token_name) ==
    LET tokens == get_tokens(kr)
    IN  IF ~InList(token_name, tokens)
        THEN set_password(kr, TOKEN_LIST_KEY, Join(Append(tokens, token_name)))
        ELSE kr

get_token(kr, token_name) == get_password(kr, token_name)

set_default_token(kr, token_name) == set_password(kr, DEFAULT_TOKEN_KEY, token_name)

get_default_token_name(kr) == get_password(kr, DEFAULT_TOKEN_KEY)

\* store_token with a keyring that never raises: the three writes in order.
store_token(kr, token_name, token, make_default) ==
    LET kr1 == set_password(kr, token_name, token)
        kr2 == add_token_to_list(kr1, token_name)
    IN  IF make_default THEN set_default_token(kr2, token_name) ELSE kr2

EmptyKeyring == [k \in {} |-> None]

\* Token names and secrets the commands are run with.
TokenNames == {<<"work">>, <<"home">>, TOKEN_LIST_KEY, DEFAULT_TOKEN_KEY}
Secrets == {<<"s1">>, <<"s2">>, <<>>}

NoCmd == [cmd |-> "none", name |-> None, token |-> None]
NoArgs == [token_name |-> None, delete |-> FALSE, deleteforcefull |-> FALSE]
NoExit == {}
NoWorld == [authOk |-> TRUE, userOk |-> TRUE, orgsOk |-> TRUE, orgs |-> <<>>]

\* The variables of a search run, before any search is running.
IdleRun ==
    /\ args = NoArgs
    /\ exitStatus = NoExit
    /\ world = NoWorld
    /\ orgTask = <<>>
    /\ repoTask = <<>>
    /\ results = <<>>
    /\ calls = {}
    /\ idx = 0
    /\ revoked = <<>>
    /\ prompts = {}

runVars == <<args, exitStatus, world, orgTask, repoTask, results, calls, idx,
             revoked, prompts>>

\* add-token <token_name> <token> [--default]
AddTokenCmd(token_name, token, default) ==
    /\ pc = "shell"
    /\ keyring' = store_token(keyring, token_name, token, default)
    /\ lastCmd' = [cmd |-> "add_token", name |-> token_name, token |-> token]
    /\ UNCHANGED <<pc, runVars>>

\* set-default <token_name>
SetDefaultCmd(token_name) ==
    /\ pc = "shell"
    /\ keyring' = IF InList(token_name, get_tokens(keyring))
                  THEN set_default_token(keyring, token_name)
                  ELSE keyring
    /\ lastCmd' = [cmd |-> "set_default", name |-> token_name, token |-> None]
    /\ UNCHANGED <<pc, runVars>>

InitStore ==
    /\ keyring = EmptyKeyring
    /\ lastCmd = NoCmd
    /\ pc = "shell"
    /\ IdleRun

NextStore ==
    \/ \E n \in TokenNames, s \in Secrets, d \in BOOLEAN : AddTokenCmd(n, s, d)
    \/ \E n \in TokenNames : SetDefaultCmd(n)

SpecStore == InitStore /\ [][NextStore]_vars

(***************************************************************************)
(* What GitHub answers                                                     *)
(*   a look-up answers "in" (the target is there), "out", or "fail"        *)
(*   (the call raises).                                                    *)
(***************************************************************************)
Lookups == {"in", "out", "fail"}

OrgLogin(i) == <<"org", ToString(i)>>
RepoName(j) == <<"repo", ToString(j)>>
TeamName(k) == <<"team", ToString(k)>>

\* A repository: its collaborator list, its team list, one look-up per team.
MkRepo(c, tOk, ts) == [collab |-> c, teamsOk |-> tOk, teams |-> ts]
\* An organization: its member list and its repository list.
MkOrg(m, rOk, rs) == [members |-> m, reposOk |-> rOk, repos |-> rs]
MkWorld(os) == [authOk |-> TRUE, userOk |-> TRUE, orgsOk |-> TRUE, orgs |-> os]

(***************************************************************************)
(* UserLocation (lines 39-43) and the access-type labels                   *)
(***************************************************************************)
ORG_MEMBER == <<"organization", " ", "member">>
REPO_COLLABORATOR == <<"repository", " ", "collaborator">>
TEAM_MEMBER == <<"team", " ", "member">>

\* f"team member ({team.name})"
TeamMemberLabelMut(name) == <<"team", " ">> \o name
TeamMemberLabel(name) == TEAM_MEMBER \o <<" ", "(">> \o name \o <<")">>

UserLocation(org_name, repo_name, access_type) ==
    [org_name |-> org_name, repo_name |-> repo_name, access_type |-> access_type]

(***************************************************************************)
(* check_repo_access (lines 111-133): the label, and the calls it made     *)
(***************************************************************************)
Call(op, team) == [op |-> op, team |-> team]

\* The mutant: a failing look-up ends the loop.
RECURSIVE CheckTeamsMut(_, _, _)
CheckTeamsMut(teams, k, trace) ==
    IF k > Len(teams) THEN [access_type |-> None, trace |-> trace]
    ELSE LET t == Append(trace, Call("has_in_members", k))
         IN  IF teams[k] = "in"
             THEN [access_type |-> TeamMemberLabel(TeamName(k)), trace |-> t]
             ELSE IF teams[k] = "fail"
             THEN [access_type |-> None, trace |-> t]
             ELSE CheckTeamsMut(teams, k + 1, t)

\* The loop over the teams, from team k on; a failing look-up is skipped.
RECURSIVE CheckTeams(_, _, _)
CheckTeams(teams, k, trace) ==
    IF k > Len(teams) THEN [access_type |-> None, trace |-> trace]
    ELSE LET t == Append(trace, Call("has_in_members", k))
         IN  IF teams[k] = "in"
             THEN [access_type |-> TeamMemberLabel(TeamName(k)), trace |-> t]
             ELSE CheckTeams(teams, k + 1, t)

\* The mutant: a failing collaborator list is passed over like a failing team.
check_repo_accessMut(repo) ==
    LET c == <<Call("get_collaborators", 0)>>
        t == Append(c, Call("get_teams", 0))
    IN  IF repo.collab = "in"
        THEN [access_type |-> REPO_COLLABORATOR, trace |-> c]
        ELSE IF ~repo.teamsOk THEN [access_type |-> None, trace |-> t]
        ELSE CheckTeams(repo.teams, 1, t)

check_repo_access(repo) ==
    LET c == <<Call("get_collaborators", 0)>>
        t == Append(c, Call("get_teams", 0))
    IN  IF repo.collab = "fail" THEN [access_type |-> None, trace |-> c]
        ELSE IF repo.collab = "in"
        THEN [access_type |-> REPO_COLLABORATOR, trace |-> c]
        ELSE IF ~repo.teamsOk THEN [access_type |-> None, trace |-> t]
        ELSE CheckTeams(repo.teams, 1, t)

(***************************************************************************)
(* check_org_access (lines 135-179) and find_user_in_orgs (lines 181-249)  *)
(***************************************************************************)
MaxOrgWorkers == 3
MaxRepoWorkersMut == 5 + 1
MaxRepoWorkers == 5

OrgIds == 1..Len(world.orgs)
RepoIds(i) == 1..Len(world.orgs[i].repos)

OrgRunning(i) == orgTask[i].st \in {"fetch", "collect"}

\* get_cached_member_ids: a failure is an empty set.  Then lines 141-142.
MemberEntries(i) ==
    IF world.orgs[i].members = "in"
    THEN <<UserLocation(OrgLogin(i), None, ORG_MEMBER)>>
    ELSE <<>>

\* Lines 186-229 up to the submission of the organizations.
FindUserBegin ==
    /\ pc = "scan"
    /\ IF ~world.authOk
       THEN /\ calls' = calls \cup {"get_user"}
            /\ pc' = "scan_done"
            /\ UNCHANGED orgTask
       ELSE IF ~world.userOk
       THEN /\ calls' = calls \cup {"get_user"}
            /\ pc' = "scan_done"
            /\ UNCHANGED orgTask
       ELSE IF ~world.orgsOk \/ world.orgs = <<>>
       THEN /\ calls' = calls \cup {"get_user", "get_orgs"}
            /\ pc' = "scan_done"
            /\ UNCHANGED orgTask
       ELSE /\ calls' = calls \cup {"get_user", "get_orgs"}
            /\ pc' = "scan_orgs"
            /\ orgTask' = [i \in OrgIds |-> [st |-> "queued", results |-> <<>>]]
    /\ repoTask' = [i \in OrgIds |-> <<>>]
    /\ UNCHANGED <<keyring, lastCmd, args, exitStatus, world, results, idx,
                   revoked, prompts>>

\* A worker of the organization pool takes the next queued organization.
OrgStart(i) ==
    /\ pc = "scan_orgs"
    /\ orgTask[i].st = "queued"
    /\ \A k \in 1..(i - 1) : orgTask[k].st # "queued"
    /\ Cardinality({k \in OrgIds : OrgRunning(k)}) < MaxOrgWorkers
    /\ orgTask' = [orgTask EXCEPT ![i].st = "fetch"]
    /\ UNCHANGED <<keyring, lastCmd, args, pc, exitStatus, world, repoTask,
                   results, calls, idx, revoked, prompts>>

\* Lines 138-155: membership, the repository list, the submission of the
\* repository checks.  A failing repository list ends the task with what it has.
OrgFetch(i) ==
    /\ pc = "scan_orgs"
    /\ orgTask[i].st = "fetch"
    /\ calls' = calls \cup {"get_organization", "get_members", "get_repos"}
    /\ IF ~world.orgs[i].reposOk
       THEN /\ orgTask' = [orgTask EXCEPT ![i] =
                              [st |-> "done", results |-> MemberEntries(i)]]
            /\ UNCHANGED repoTask
       ELSE /\ orgTask' = [orgTask EXCEPT ![i] =
                              [st |-> "collect", results |-> MemberEntries(i)]]
            /\ repoTask' = [repoTask EXCEPT ![i] =
                              [j \in RepoIds(i) |->
                                  [st |-> "queued", access_type |-> None,
                                   trace |-> <<>>]]]
    /\ UNCHANGED <<keyring, lastCmd, args, pc, exitStatus, world, results, idx,
                   revoked, prompts>>

\* A worker of organization i's repository pool takes its next queued check.
RepoStart(i, j) ==
    /\ pc = "scan_orgs"
    /\ orgTask[i].st = "collect"
    /\ j \in DOMAIN repoTask[i]
    /\ repoTask[i][j].st = "queued"
    /\ \A k \in 1..(j - 1) : repoTask[i][k].st # "queued"
    /\ Cardinality({k \in DOMAIN repoTask[i] : repoTask[i][k].st = "running"})
           < MaxRepoWorkers
    /\ repoTask' = [repoTask EXCEPT ![i][j].st = "running"]
    /\ UNCHANGED <<keyring, lastCmd, args, pc, exitStatus, world, orgTask,
                   results, calls, idx, revoked, prompts>>

\* check_repo_access runs to its return.
RepoRun(i, j) ==
    /\ pc = "scan_orgs"
    /\ j \in DOMAIN repoTask[i]
    /\ repoTask[i][j].st = "running"
    /\ LET r == check_repo_access(world.orgs[i].repos[j])
       IN  /\ repoTask' = [repoTask EXCEPT ![i][j] =
                              [st |-> "done", access_type |-> r.access_type,
                               trace |-> r.trace]]
           /\ calls' = calls \cup {r.trace[k].op : k \in 1..Len(r.trace)}
    /\ UNCHANGED <<keyring, lastCmd, args, pc, exitStatus, world, orgTask,
                   results, idx, revoked, prompts>>

\* Lines 158-170: as_completed hands over one finished check.
RepoLocations(i, j) ==
    IF Truthy(repoTask[i][j].access_type)
    THEN <<UserLocation(OrgLogin(i), RepoName(j), repoTask[i][j].access_type)>>
    ELSE <<>>

OrgCollect(i, j) ==
    /\ pc = "scan_orgs"
    /\ orgTask[i].st = "collect"
    /\ j \in DOMAIN repoTask[i]
    /\ repoTask[i][j].st = "done"
    /\ repoTask' = [repoTask EXCEPT ![i][j].st = "collected"]
    /\ orgTask' = [orgTask EXCEPT ![i].results = @ \o RepoLocations(i, j)]
    /\ UNCHANGED <<keyring, lastCmd, args, pc, exitStatus, world, results,
                   calls, idx, revoked, prompts>>

\* Line 179: every check was handed over, the pool is shut down.
OrgFinish(i) ==
    /\ pc = "scan_orgs"
    /\ orgTask[i].st = "collect"
    /\ \A j \in DOMAIN repoTask[i] : repoTask[i][j].st = "collected"
    /\ orgTask' = [orgTask EXCEPT ![i].st = "done"]
    /\ UNCHANGED <<keyring, lastCmd, args, pc, exitStatus, world, repoTask,
                   results, calls, idx, revoked, prompts>>

\* Lines 232-237: as_completed hands over one finished organization.
\* (MainCollectMut is the mutant that assigns instead of extending.)
MainCollectMut(i) ==
    /\ pc = "scan_orgs"
    /\ orgTask[i].st = "done"
    /\ orgTask' = [orgTask EXCEPT ![i].st = "collected"]
    /\ results' = orgTask[i].results
    /\ UNCHANGED <<keyring, lastCmd, args, pc, exitStatus, world, repoTask,
                   calls, idx, revoked, prompts>>

MainCollect(i) ==
    /\ pc = "scan_orgs"
    /\ orgTask[i].st = "done"
    /\ orgTask' = [orgTask EXCEPT ![i].st = "collected"]
    /\ results' = results \o orgTask[i].results
    /\ UNCHANGED <<keyring, lastCmd, args, pc, exitStatus, world, repoTask,
                   calls, idx, revoked, prompts>>

\* Line 249, after the loop over the organizations.
AllOrgsCollected == \A i \in OrgIds : orgTask[i].st = "collected"
FindUserReturn ==
    /\ pc = "scan_orgs"
    /\ AllOrgsCollected
    /\ pc' = "scan_done"
    /\ UNCHANGED <<keyring, lastCmd, args, exitStatus, world, orgTask,
                   repoTask, results, calls, idx, revoked, prompts>>

NextScan ==
    \/ FindUserBegin
    \/ \E i \in OrgIds : OrgStart(i)
    \/ \E i \in OrgIds : OrgFetch(i)
    \/ \E i \in OrgIds : \E j \in RepoIds(i) : RepoStart(i, j)
    \/ \E i \in OrgIds : \E j \in RepoIds(i) : RepoRun(i, j)
    \/ \E i \in OrgIds : \E j \in RepoIds(i) : OrgCollect(i, j)
    \/ \E i \in OrgIds : OrgFinish(i)
    \/ \E i \in OrgIds : MainCollect(i)
    \/ FindUserReturn

(***************************************************************************)
(* Scans of one organization with one repository, every repository         *)
(*   with up to MaxTeams teams                                             *)
(***************************************************************************)
MaxTeams == 3

TeamLists == UNION {[1..n -> Lookups] : n \in 0..MaxTeams}
AllRepos ==
    {MkRepo(c, TRUE, ts) : c \in Lookups, ts \in TeamLists}
        \cup {MkRepo(c, FALSE, <<>>) : c \in Lookups}

\* A stored default token, as "add-token work s1 --default" leaves it.
WorkKeyring == store_token(EmptyKeyring, <<"work">>, <<"s1">>, TRUE)

\* The run at the call of find_user_in_orgs.
AtScan(w) ==
    /\ keyring = WorkKeyring
    /\ lastCmd = NoCmd
    /\ args = NoArgs
    /\ pc = "scan"
    /\ exitStatus = NoExit
    /\ world = w
    /\ orgTask = <<>>
    /\ repoTask = <<>>
    /\ results = <<>>
    /\ calls = {}
    /\ idx = 0
    /\ revoked = <<>>
    /\ prompts = {}

InitRepo == \E r \in AllRepos : AtScan(MkWorld(<<MkOrg("out", TRUE, <<r>>)>>))

SpecRepo == InitRepo /\ [][NextScan]_vars

(***************************************************************************)
(* Scans with failing fetches: ScanOrgs organizations at most, one of them *)
(*   of any kind with up to ScanRepos repositories, the others with the    *)
(*   target as a member and no repository                                  *)
(***************************************************************************)
ScanOrgs == 2
ScanRepos == 2

ScanRepoKinds ==
    { MkRepo("in", TRUE, <<"in">>),           \* collaborator, and in a team
      MkRepo("out", TRUE, <<"fail", "in">>),  \* in the second team only
      MkRepo("out", TRUE, <<"out">>),         \* no access
      MkRepo("fail", TRUE, <<"in">>),         \* the collaborator list fails
      MkRepo("out", FALSE, <<>>) }            \* the team list fails

AnyOrgs ==
    {MkOrg(m, TRUE, rs) :
        m \in Lookups, rs \in UNION {[1..n -> ScanRepoKinds] : n \in 0..ScanRepos}}
        \cup {MkOrg(m, FALSE, <<>>) : m \in Lookups}

MemberOrg == MkOrg("in", TRUE, <<>>)

ScanWorlds ==
    {MkWorld([i \in 1..n |-> IF i = p THEN o ELSE MemberOrg]) :
        n \in 1..ScanOrgs, p \in 1..ScanOrgs, o \in AnyOrgs}
        \cup { [MkWorld(<<MemberOrg>>) EXCEPT !.authOk = FALSE],
               [MkWorld(<<MemberOrg>>) EXCEPT !.userOk = FALSE],
               [MkWorld(<<MemberOrg>>) EXCEPT !.orgsOk = FALSE],
               MkWorld(<<>>) }

InitScan == \E w \in ScanWorlds : AtScan(w)

SpecScan == InitScan /\ [][NextScan]_vars

(***************************************************************************)
(* Scans without failures that fill both pools: PoolOrgs organizations,    *)
(*   one of them with PoolRepos repositories                               *)
(***************************************************************************)
PoolOrgs == 4
PoolRepos == 6

PoolRepo(j) ==
    IF j = 1 THEN MkRepo("in", TRUE, <<>>)
    ELSE IF j = 2 THEN MkRepo("out", TRUE, <<"out", "in">>)
    ELSE MkRepo("out", TRUE, <<"out">>)

PoolWorld(big) ==
    MkWorld([i \in 1..PoolOrgs |->
        IF i = big
        THEN MkOrg("in", TRUE, [j \in 1..PoolRepos |-> PoolRepo(j)])
        ELSE MkOrg(IF i = 1 THEN "in" ELSE "out", TRUE, <<>>)])

InitPool == AtScan(PoolWorld(1))

SpecPool == InitPool /\ [][NextScan]_vars

(***************************************************************************)
(* Properties of the scan                                                  *)
(***************************************************************************)
Range(s) == {s[k] : k \in 1..Len(s)}
SeqToBag(s) == [x \in Range(s) |-> Cardinality({k \in 1..Len(s) : s[k] = x})]

\* Where a location lies: its organization and its repository.
Place(loc) == <<loc.org_name, loc.repo_name>>
Places(locs) == SeqToBag([k \in 1..Len(locs) |-> Place(locs[k])])

ScanStarted == world.authOk /\ world.userOk /\ world.orgsOk

\* The answers of GitHub, read off the world.
IsMember(i) == world.orgs[i].members = "in"
InSomeTeam(r) == r.teamsOk /\ \E k \in 1..Len(r.teams) : r.teams[k] = "in"
HasAccess(i, j) ==
    LET r == world.orgs[i].repos[j]
    IN  world.orgs[i].reposOk /\ (r.collab = "in" \/ (r.collab = "out" /\ InSomeTeam(r)))
OrgFailed(i) == world.orgs[i].members = "fail" \/ ~world.orgs[i].reposOk
RepoFailed(i, j) ==
    LET r == world.orgs[i].repos[j]
    IN  r.collab = "fail" \/ (r.collab = "out" /\ ~r.teamsOk)
NoFetchFails ==
    /\ ScanStarted
    /\ \A i \in OrgIds :
        /\ ~OrgFailed(i)
        /\ \A j \in RepoIds(i) :
            LET r == world.orgs[i].repos[j]
            IN  r.collab # "fail" /\ r.teamsOk
                  /\ \A k \in 1..Len(r.teams) : r.teams[k] # "fail"

MemberPlaces == {<<OrgLogin(i), None>> : i \in {k \in OrgIds : IsMember(k)}}
RepoPlaces ==
    UNION {{<<OrgLogin(i), RepoName(j)>> : j \in {k \in RepoIds(i) : HasAccess(i, k)}} :
              i \in OrgIds}

AllChecksCompleted ==
    \A i \in OrgIds :
        /\ orgTask[i].st = "collected"
        /\ Len(repoTask[i]) = Len(world.orgs[i].repos)
        /\ \A j \in RepoIds(i) : repoTask[i][j].st = "collected"

\* C7: when no fetch fails, whatever the interleaving of the workers, the
\* returned collection is as a multiset one organization-member location per
\* organization the target is a member of plus one repository location per
\* repository with access, and it is returned only after every dispatched
\* check has completed.
ScanResultIsExact ==
    (pc = "scan_done" /\ NoFetchFails /\ world.orgs # <<>>) =>
        /\ Places(results) = SetToBag(MemberPlaces \cup RepoPlaces)
        /\ AllChecksCompleted

\* C7 witness: a finished scan that found the target as a member of an
\* organization and as a collaborator of one of its repositories.
ScanFoundMemberAndCollaborator ==
    /\ pc = "scan_done"
    /\ NoFetchFails
    /\ \E i \in OrgIds :
        /\ UserLocation(OrgLogin(i), None, ORG_MEMBER) \in Range(results)
        /\ UserLocation(OrgLogin(i), RepoName(1), REPO_COLLABORATOR) \in Range(results)

\* C9: at every moment at most 3 organization checks are executing, and
\* within each organization at most 5 repository checks.
PoolsAreBounded ==
    /\ Cardinality({i \in DOMAIN orgTask : OrgRunning(i)}) <= 3
    /\ \A i \in DOMAIN repoTask :
        Cardinality({j \in DOMAIN repoTask[i] : repoTask[i][j].st = "running"}) <= 5

\* C9 witness: both pools are full and a check waits in each queue.
PoolsAreFull ==
    /\ Cardinality({i \in DOMAIN orgTask : OrgRunning(i)}) = 3
    /\ \E i \in DOMAIN orgTask : orgTask[i].st = "queued"
    /\ \E i \in DOMAIN repoTask :
        /\ Cardinality({j \in DOMAIN repoTask[i] : repoTask[i][j].st = "running"}) = 5
        /\ \E j \in DOMAIN repoTask[i] : repoTask[i][j].st = "queued"

\* C2 as stated: after a scan with failing fetches every location of the
\* organizations and repositories that did not fail is in the result, and a
\* failed organization or repository has no location at all in it.
FailedContributeNothing ==
    (pc = "scan_done" /\ ScanStarted) =>
        /\ \A i \in OrgIds :
            /\ (~OrgFailed(i) /\ IsMember(i)) => <<OrgLogin(i), None>> \in DOMAIN Places(results)
            /\ \A j \in RepoIds(i) :
                (~OrgFailed(i) /\ ~RepoFailed(i, j) /\ HasAccess(i, j))
                    => <<OrgLogin(i), RepoName(j)>> \in DOMAIN Places(results)
        /\ \A k \in 1..Len(results) :
            \A i \in OrgIds :
                results[k].org_name = OrgLogin(i) =>
                    /\ ~OrgFailed(i)
                    /\ \A j \in RepoIds(i) :
                        results[k].repo_name = RepoName(j) => ~RepoFailed(i, j)

\* C2 amended: the scan never gets stuck before its return (every step moves
\* a check forward, so it completes), and the result is exactly the locations
\* whose own fetches succeeded: a failing member list costs the organization
\* entry only, a failing repository list the repository entries only, a
\* failing collaborator or team list that repository's entry only.
FailedFetchContributesNothing ==
    /\ pc \in {"scan", "scan_orgs"} => ENABLED NextScan
    /\ (pc = "scan_done" /\ ScanStarted /\ world.orgs # <<>>) =>
        /\ Places(results) = SetToBag(MemberPlaces \cup RepoPlaces)
        /\ AllOrgsCollected

\* C2 witness: a finished scan in which a repository list failed and the
\* organization entry found before it is in the result.
ScanKeptEntryOfFailedOrg ==
    /\ pc = "scan_done"
    /\ ScanStarted
    /\ \E i \in OrgIds :
        /\ ~world.orgs[i].reposOk
        /\ <<OrgLogin(i), None>> \in DOMAIN Places(results)
        /\ \E k \in OrgIds : k # i /\ <<OrgLogin(k), None>> \in DOMAIN Places(results)

IsTeamLabel(a) ==
    /\ Len(a) > 6
    /\ SubSeq(a, 1, 5) = <<"team", " ", "member", " ", "(">>
    /\ a[Len(a)] = ")"

LabelFitsPlace(loc) ==
    IF loc.repo_name # None
    THEN loc.access_type = <<"repository", " ", "collaborator">>
            \/ IsTeamLabel(loc.access_type)
    ELSE loc.access_type = <<"organization", " ", "member">>

\* C8: every location a scan produces has the label "repository
\* collaborator" or "team member (<name>)" if it names a repository, and
\* "organization member" if it names none.
LabelsFitPlaces ==
    /\ \A k \in 1..Len(results) : LabelFitsPlace(results[k])
    /\ \A i \in DOMAIN orgTask :
        \A k \in 1..Len(orgTask[i].results) : LabelFitsPlace(orgTask[i].results[k])

\* C8 witness: a result with the three kinds of location, after a failure.
ScanFoundAllKinds ==
    /\ pc = "scan_done"
    /\ \E i \in OrgIds : OrgFailed(i) \/ \E j \in RepoIds(i) : RepoFailed(i, j)
    /\ \E k \in 1..Len(results) : results[k].access_type = ORG_MEMBER
    /\ \E k \in 1..Len(results) : results[k].access_type = REPO_COLLABORATOR
    /\ \E k \in 1..Len(results) : IsTeamLabel(results[k].access_type)

TeamCalls(n) == [k \in 1..n |-> Call("has_in_members", k)]

\* C10: a finished repository check has one label: "repository collaborator"
\* with no team call made if the target is a collaborator; otherwise the
\* teams were looked up in order up to the first one that has the target,
\* failing look-ups passed over, and the label names that team; none if
\* neither matches.
RepoCheckIsFirstMatch ==
    \A i \in DOMAIN repoTask : \A j \in DOMAIN repoTask[i] :
        repoTask[i][j].st \in {"done", "collected"} =>
            LET r == world.orgs[i].repos[j]
                t == repoTask[i][j]
                hits == {k \in 1..Len(r.teams) : r.teams[k] = "in"}
                first == CHOOSE k \in hits : \A m \in hits : k <= m
                head == <<Call("get_collaborators", 0), Call("get_teams", 0)>>
            IN  /\ r.collab = "in" =>
                    /\ t.access_type = <<"repository", " ", "collaborator">>
                    /\ t.trace = <<Call("get_collaborators", 0)>>
                /\ (r.collab = "out" /\ r.teamsOk /\ hits # {}) =>
                    /\ t.access_type =
                          <<"team", " ", "member", " ", "(", "team", ToString(first), ")">>
                    /\ t.trace = head \o TeamCalls(first)
                /\ (r.collab = "out" /\ r.teamsOk /\ hits = {}) =>
                    /\ t.access_type = None
                    /\ t.trace = head \o TeamCalls(Len(r.teams))
                /\ (r.collab # "in" /\ ~InSomeTeam(r)) => t.access_type = None
                /\ Len(RepoLocations(i, j)) <= 1

\* C10 witness: a finished check that passed over a failing look-up and a
\* team without the target, and matched the third team.
RepoCheckPassedFailingTeam ==
    \E i \in DOMAIN repoTask : \E j \in DOMAIN repoTask[i] :
        /\ repoTask[i][j].st = "done"
        /\ world.orgs[i].repos[j] = MkRepo("out", TRUE, <<"fail", "out", "in">>)
        /\ repoTask[i][j].access_type = TeamMemberLabel(TeamName(3))

(***************************************************************************)
(* remove_user_from_org (lines 251-273)                                    *)
(*   env: whether get_repo, get_teams and the removal call succeed; the    *)
(*   team look-ups answer as in the scan.  Returns the boolean and the     *)
(*   removal calls made.                                                   *)
(***************************************************************************)
OrgOf(location) == CHOOSE i \in OrgIds : OrgLogin(i) = location.org_name
RepoOf(location) ==
    CHOOSE j \in RepoIds(OrgOf(location)) : RepoName(j) = location.repo_name

RevokeEnvs == [repoOk : BOOLEAN, teamsOk : BOOLEAN, removeOk : BOOLEAN]

\* The loop over the teams of the repository, from team k on: a removal per
\* team that has the user; whatever fails in a team is passed over.
RECURSIVE RemoveFromTeams(_, _)
RemoveFromTeams(teams, k) ==
    IF k > Len(teams) THEN <<>>
    ELSE (IF teams[k] = "in" THEN <<Call("remove_membership", k)>> ELSE <<>>)
            \o RemoveFromTeams(teams, k + 1)

\* The mutant: the collaborator removal is not in an else branch.
remove_user_from_orgMut(location, env) ==
    IF Truthy(location.repo_name)
    THEN IF ~env.repoOk THEN [ok |-> FALSE, ops |-> <<>>]
         ELSE IF Contains(location.access_type, TEAM_MEMBER) /\ ~env.teamsOk
         THEN [ok |-> FALSE, ops |-> <<>>]
         ELSE [ok |-> env.removeOk,
               ops |-> (IF Contains(location.access_type, TEAM_MEMBER)
                        THEN RemoveFromTeams(
                                 world.orgs[OrgOf(location)].repos[RepoOf(location)].teams, 1)
                        ELSE <<>>)
                       \o <<Call("remove_from_collaborators", 0)>>]
    ELSE [ok |-> env.removeOk, ops |-> <<Call("remove_from_members", 0)>>]

remove_user_from_org(location, env) ==
    IF Truthy(location.repo_name)
    THEN IF ~env.repoOk THEN [ok |-> FALSE, ops |-> <<>>]
         ELSE IF Contains(location.access_type, TEAM_MEMBER)
         THEN IF ~env.teamsOk THEN [ok |-> FALSE, ops |-> <<>>]
              ELSE [ok |-> TRUE,
                    ops |-> RemoveFromTeams(
                                world.orgs[OrgOf(location)].repos[RepoOf(location)].teams, 1)]
         ELSE [ok |-> env.removeOk, ops |-> <<Call("remove_from_collaborators", 0)>>]
    ELSE [ok |-> env.removeOk, ops |-> <<Call("remove_from_members", 0)>>]

(***************************************************************************)
(* search (lines 309-368)                                                  *)
(***************************************************************************)
\* Lines 311-322: the token to use, None where the command exits with 1.
ResolveTokenMut(kr, token_name) ==
    LET name == IF ~Truthy(token_name) THEN get_default_token_name(kr) ELSE token_name
    IN  IF ~Truthy(name) THEN None
        ELSE IF get_token(kr, name) = None THEN name ELSE get_token(kr, name)

ResolveToken(kr, token_name) ==
    LET name == IF ~Truthy(token_name) THEN get_default_token_name(kr) ELSE token_name
    IN  IF ~Truthy(name) THEN None
        ELSE IF ~Truthy(get_token(kr, name)) THEN None
        ELSE get_token(kr, name)

SearchResolve ==
    /\ pc = "search"
    /\ IF ResolveToken(keyring, args.token_name) = None
       THEN pc' = "exit" /\ exitStatus' = {1}
       ELSE pc' = "scan" /\ UNCHANGED exitStatus
    /\ UNCHANGED <<keyring, lastCmd, args, world, orgTask, repoTask, results,
                   calls, idx, revoked, prompts>>

\* Lines 331-349: nothing found, or nothing to delete, ends the command.
SearchAfterScan ==
    /\ pc = "scan_done"
    /\ IF results # <<>> /\ (args.delete \/ args.deleteforcefull)
       THEN pc' = "delete" /\ idx' = 1 /\ UNCHANGED exitStatus
       ELSE pc' = "exit" /\ exitStatus' = {0} /\ UNCHANGED idx
    /\ UNCHANGED <<keyring, lastCmd, args, world, orgTask, repoTask, results,
                   calls, revoked, prompts>>

RemovalKinds(ops) == {ops[k].op : k \in 1..Len(ops)}

\* Lines 354 and 364: the call of remove_user_from_org for location idx.
Revoke(env) ==
    LET r == remove_user_from_org(results[idx], env)
    IN  /\ revoked' = Append(revoked, [idx |-> idx, ok |-> r.ok, ops |-> r.ops])
        /\ calls' = calls \cup {"get_organization"}
                        \cup (IF Truthy(results[idx].repo_name) THEN {"get_repo"} ELSE {})
                        \cup RemovalKinds(r.ops)

\* Lines 351-368: one turn of the loop.  get_organization is called outside
\* any try: when it raises, the command ends with a traceback.
DeleteStep ==
    /\ pc = "delete"
    /\ idx <= Len(results)
    /\ \E orgOk \in BOOLEAN, answer \in BOOLEAN, env \in RevokeEnvs :
        IF ~orgOk
        THEN /\ pc' = "crashed"
             /\ exitStatus' = {1}
             /\ calls' = calls \cup {"get_organization"}
             /\ UNCHANGED <<idx, revoked, prompts>>
        ELSE IF args.deleteforcefull
        THEN /\ Revoke(env)
             /\ idx' = idx + 1
             /\ UNCHANGED <<pc, exitStatus, prompts>>
        ELSE /\ prompts' = prompts \cup {[idx |-> idx, answer |-> answer]}
             /\ IF answer
                THEN Revoke(env)
                ELSE /\ calls' = calls \cup {"get_organization"}
                     /\ UNCHANGED revoked
             /\ idx' = idx + 1
             /\ UNCHANGED <<pc, exitStatus>>
    /\ UNCHANGED <<keyring, lastCmd, args, world, orgTask, repoTask, results>>

\* The loop is over, the command returns.
SearchEnd ==
    /\ pc = "delete"
    /\ idx > Len(results)
    /\ pc' = "exit"
    /\ exitStatus' = {0}
    /\ UNCHANGED <<keyring, lastCmd, args, world, orgTask, repoTask, results,
                   calls, idx, revoked, prompts>>

(***************************************************************************)
(* Runs of search: a keyring left by earlier token commands, any options,  *)
(*   one organization with up to SearchRepos repositories                  *)
(***************************************************************************)
SearchRepos == 2

SearchKeyrings ==
    { EmptyKeyring,
      WorkKeyring,
      store_token(EmptyKeyring, <<"work">>, <<"s1">>, FALSE),
      store_token(EmptyKeyring, DEFAULT_TOKEN_KEY, <<"home">>, FALSE),
      store_token(WorkKeyring, <<"home">>, <<>>, FALSE) }

SearchArgs ==
    [token_name : {None, <<"work">>, <<"home">>}, delete : BOOLEAN,
     deleteforcefull : BOOLEAN]

SearchRepoKinds ==
    { MkRepo("in", TRUE, <<"in">>), MkRepo("out", TRUE, <<"fail", "in", "in">>) }

SearchWorlds ==
    {MkWorld(<<MkOrg(m, TRUE, rs)>>) :
        m \in {"in", "out"},
        rs \in UNION {[1..n -> SearchRepoKinds] : n \in 0..SearchRepos}}
        \cup {[MkWorld(<<MemberOrg>>) EXCEPT !.userOk = FALSE]}

Init ==
    /\ keyring \in SearchKeyrings
    /\ lastCmd = NoCmd
    /\ args \in SearchArgs
    /\ pc = "search"
    /\ exitStatus = NoExit
    /\ world \in SearchWorlds
    /\ orgTask = <<>>
    /\ repoTask = <<>>
    /\ results = <<>>
    /\ calls = {}
    /\ idx = 0
    /\ revoked = <<>>
    /\ prompts = {}

Next ==
    \/ SearchResolve
    \/ NextScan
    \/ SearchAfterScan
    \/ DeleteStep
    \/ SearchEnd

Spec == Init /\ [][Next]_vars

(***************************************************************************)
(* Properties of search                                                    *)
(***************************************************************************)
Ended == pc \in {"exit", "crashed"}
Deleting == args.delete \/ args.deleteforcefull
RevokedIdx == {revoked[k].idx : k \in 1..Len(revoked)}
RemovalOps == {"remove_membership", "remove_from_collaborators", "remove_from_members"}

\* C3: in the deletion loop a failure while revoking one location, in the
\* look-up of its organization or in the removal, does not abort the loop:
\* every later location is still processed.
FailureDoesNotAbortLoop ==
    (Ended /\ Deleting /\ results # <<>>) => idx = Len(results) + 1

\* The revoker runs for a location only under --deleteforcefull, or under
\* --delete after a yes for that location; without either flag no removal is
\* invoked; under --deleteforcefull nothing is prompted.
RevokerIsGated ==
    /\ \A i \in RevokedIdx :
        \/ args.deleteforcefull
        \/ args.delete /\ [idx |-> i, answer |-> TRUE] \in prompts
    /\ ~Deleting => (revoked = <<>> /\ calls \cap RemovalOps = {})
    /\ args.deleteforcefull => prompts = {}

\* C4: the gating above, and under --deleteforcefull the revoker is invoked
\* for every found location.
RevokerIsGatedAndForcedForAll ==
    /\ RevokerIsGated
    /\ (Ended /\ args.deleteforcefull /\ results # <<>>) =>
            RevokedIdx = 1..Len(results)

\* C5: one call of remove_user_from_org makes one kind of removal: team
\* membership removals only for a repository location labelled "team
\* member", the collaborator removal only for any other repository location,
\* the organization-member removal only for a location without repository.
OneKindOfRemoval ==
    \A k \in 1..Len(revoked) :
        LET loc == results[revoked[k].idx]
            kinds == RemovalKinds(revoked[k].ops)
            team == Contains(loc.access_type, <<"team", " ", "member">>)
        IN  /\ (loc.repo_name # None /\ team) => kinds \subseteq {"remove_membership"}
            /\ (loc.repo_name # None /\ ~team) =>
                    kinds \subseteq {"remove_from_collaborators"}
            /\ loc.repo_name = None => kinds = {"remove_from_members"}

\* C5 witness: the three kinds of location were revoked in one run, the
\* team location with a removal from two teams.
RevokedEachKind ==
    /\ \E k \in 1..Len(revoked) :
        /\ IsTeamLabel(results[revoked[k].idx].access_type)
        /\ Len(revoked[k].ops) = 2
    /\ \E k \in 1..Len(revoked) :
        /\ results[revoked[k].idx].access_type = REPO_COLLABORATOR
        /\ RemovalKinds(revoked[k].ops) = {"remove_from_collaborators"}
    /\ \E k \in 1..Len(revoked) :
        /\ results[revoked[k].idx].repo_name = None
        /\ RemovalKinds(revoked[k].ops) = {"remove_from_members"}

NameGiven == args.token_name \notin {None, <<>>}
DefaultStored ==
    DEFAULT_TOKEN_KEY \in DOMAIN keyring /\ keyring[DEFAULT_TOKEN_KEY] # <<>>
ChosenName == IF NameGiven THEN args.token_name ELSE keyring[DEFAULT_TOKEN_KEY]
NoUsableToken ==
    \/ ~NameGiven /\ ~DefaultStored
    \/ ChosenName \notin DOMAIN keyring
    \/ keyring[ChosenName] = <<>>

\* C6: when search is run and no usable token can be resolved (no name
\* given and no default stored, or no secret stored under the chosen name),
\* the process exits with status 1 and no GitHub client operation has been
\* invoked.
NoTokenExitsBeforeAnyCall ==
    NoUsableToken =>
        /\ calls = {}
        /\ pc \in {"search", "exit"}
        /\ pc = "exit" => exitStatus = {1}

\* C6 witness: the command has exited for a default name with no secret.
ExitedForMissingSecret ==
    /\ pc = "exit"
    /\ exitStatus = {1}
    /\ ~NameGiven
    /\ DefaultStored
    /\ NoUsableToken

\* C1: after store_token(T, S, make_default), get_token(T) returns exactly S,
\* for every name T (the reserved keys included) and after any earlier
\* sequence of token commands.
GetAfterStoreReturnsSecret ==
    lastCmd.cmd = "add_token" => get_token(keyring, lastCmd.name) = lastCmd.token

=============================================================================
